---- MODULE Spec2Model ----
(***************************************************************************)
(* The notebook 02_Science_Data_Formats_and_Advanced_Plotting.ipynb as a   *)
(* state machine.  A state is the kernel's namespace (env), the position   *)
(* of the next statement (pc), the last displayed value (out), the         *)
(* exception that stopped the run (error), the position of the open GRIB   *)
(* iterator (messagenumber), the contents of the data files as far as the  *)
(* notebook has opened them (disk), the cells the reader ran again (again) *)
(* and where the reader was when running one again (resume).  One step     *)
(* executes one statement of a code cell.                                  *)
(***************************************************************************)
EXTENDS Integers, Sequences, FiniteSets, TLC

VARIABLES pc, env, out, error, messagenumber, disk, again, resume

vars == <<pc, env, out, error, messagenumber, disk, again, resume>>

(* ---- bounds of the model ---- *)
MaxLat == 2
MaxLon == 3
MaxMessages == 316
MaxAgain == 2

(* ---- numbers the notebook states ---- *)
RecordIndex == 12
TempIndex == 315
December == 11
Months == 12
ExampleMessages == 522

(* ---- the statements of the code cells, by line of the .ipynb ---- *)
CodeLines ==
  << 62, 63, 64, 81, 98, 99, 115, 150, 151, 152, 168, 184, 200, 201, 244,
     260, 261, 277, 295, 296, 297, 299, 315, 331, 347, 363, 379,
     395, 396, 398, 399, 401, 402, 418, 434, 450, 451, 452,
     477, 479, 480, 496, 525, 526, 527, 543, 566, 582, 583, 599, 615, 631,
     650, 651, 652, 653, 654, 671, 672, 673, 674, 675, 721, 737, 738, 740,
     749, 750, 752, 754, 755, 771, 772, 774, 776, 777 >>

(* first statement of every non-empty code cell *)
CellStarts ==
  { 62, 81, 98, 115, 150, 168, 184, 200, 244, 260, 277, 295, 315, 331, 347,
    363, 379, 395, 418, 434, 450, 477, 496, 525, 543, 566, 582, 599, 615,
    631, 650, 671, 721, 737, 749, 771 }

Halted == 0
Done == Len(CodeLines) + 1

Idx(line) == CHOOSE i \in 1..Len(CodeLines) : CodeLines[i] = line

Line(p) == IF p \in 1..Len(CodeLines) THEN CodeLines[p] ELSE 0

(* number of the cell a statement belongs to, counted from the top *)
CellOf(line) == Cardinality({s \in CellStarts : s <= line})

ImportLines == {62, 63, 64, 81, 244, 477, 721}
LiteralLines == {98, 260, 295, 479, 582, 583}
OpenDatasetLines == {99, 480}
AssignLines ==
  { 150, 151, 152, 200, 395, 396, 398, 399, 401, 402, 450, 451, 525, 526,
    527, 566, 615, 650, 651, 652, 671, 672, 673, 737, 738, 749, 750, 771, 772 }
ExprLines ==
  { 115, 168, 184, 201, 277, 299, 315, 363, 379, 418, 434, 452, 496, 543,
    599, 631, 653, 654, 674, 675, 740, 752, 754, 755, 774, 776, 777 }

(* the names a statement binds *)
Targets(line) ==
  CASE line = 62 -> <<"np">>
    [] line = 63 -> <<"pd">>
    [] line = 64 -> <<"plt">>
    [] line \in {81, 477} -> <<"xr">>
    [] line = 244 -> <<"pygrib">>
    [] line = 721 -> <<"ccrs">>
    [] line \in {98, 479} -> <<"fname">>
    [] line = 99 -> <<"aod_file_id">>
    [] line = 150 -> <<"AOD_550">>
    [] line = 151 -> <<"AOD_lat">>
    [] line = 152 -> <<"AOD_lon">>
    [] line = 200 -> <<"avgAOD">>
    [] line = 260 -> <<"filename">>
    [] line = 261 -> <<"gfs_grb2">>
    [] line = 295 -> <<"records">>
    [] line = 296 -> <<"grb">>
    [] line = 331 -> <<"temps">>
    [] line = 347 -> <<"temp">>
    [] line = 395 -> <<"gfs_lat_all">>
    [] line = 396 -> <<"gfs_lon_all">>
    [] line = 398 -> <<"level">>
    [] line = 399 -> <<"units">>
    [] line = 401 -> <<"analysis_date">>
    [] line = 402 -> <<"fcst_time">>
    [] line = 450 -> <<"gfs_lat">>
    [] line = 451 -> <<"gfs_lon">>
    [] line = 480 -> <<"sst_file_id">>
    [] line \in {525, 566} -> <<"sst">>
    [] line = 526 -> <<"sst_lat">>
    [] line = 527 -> <<"sst_lon">>
    [] line = 582 -> <<"tmp_x">>
    [] line = 583 -> <<"tmp_y">>
    [] line = 615 -> <<"X_sst", "Y_sst">>
    [] line \in {650, 671, 749, 771} -> <<"fig">>
    [] line \in {651, 672, 750, 772} -> <<"ax">>
    [] line \in {652, 673} -> <<"sst_plot">>
    [] line = 737 -> <<"gfs_temp">>
    [] line = 738 -> <<"gfs_x", "gfs_y">>
    [] OTHER -> <<>>

(* the names a statement reads *)
Reads(line) ==
  CASE line \in {99, 480} -> {"xr", "fname"}
    [] line \in {115, 150, 151, 152} -> {"aod_file_id"}
    [] line \in {168, 184, 200} -> {"AOD_550"}
    [] line = 201 -> {"avgAOD"}
    [] line = 261 -> {"pygrib", "filename"}
    [] line \in {277, 296, 331, 347} -> {"gfs_grb2"}
    [] line = 297 -> {"records", "grb"}
    [] line \in {299, 315} -> {"records"}
    [] line \in {363, 379, 395, 396, 398, 399, 401, 402, 737} -> {"temp"}
    [] line = 418 -> {"temp", "gfs_lat_all", "gfs_lon_all"}
    [] line = 434 -> {"gfs_lat_all", "gfs_lon_all"}
    [] line = 450 -> {"np", "gfs_lat_all"}
    [] line = 451 -> {"np", "gfs_lon_all"}
    [] line = 452 -> {"gfs_lat", "gfs_lon"}
    [] line \in {496, 525, 526, 527, 566} -> {"sst_file_id"}
    [] line = 543 -> {"sst_lat", "sst_lon", "sst"}
    [] line = 599 -> {"np", "tmp_x", "tmp_y"}
    [] line = 615 -> {"np", "sst_lon", "sst_lat"}
    [] line = 631 -> {"sst", "X_sst"}
    [] line \in {650, 651, 654, 671, 672, 675, 749, 755, 771, 777} -> {"plt"}
    [] line \in {652, 673} -> {"ax", "X_sst", "Y_sst", "sst"}
    [] line = 653 -> {"fig", "sst_plot", "ax"}
    [] line = 674 -> {"fig", "sst_plot"}
    [] line = 738 -> {"np", "gfs_lon", "gfs_lat"}
    [] line = 740 -> {"gfs_x", "gfs_y", "gfs_temp"}
    [] line \in {750, 772} -> {"plt", "ccrs"}
    [] line = 752 -> {"ax", "gfs_x", "gfs_y", "gfs_temp"}
    [] line = 774 -> {"ax", "gfs_x", "gfs_y", "gfs_temp", "ccrs"}
    [] line \in {754, 776} -> {"ax"}
    [] OTHER -> {}

(* ---- values ---- *)
Ok(v) == [exc |-> "none", val |-> v]

Exc(x) == [exc |-> x, val |-> <<>>]

(* an extension of the namespace: name n now refers to v *)
Bind(e, n, v) == (n :> v) @@ e

Missing == -1

(* numpy.ndarray and xarray.DataArray: nested sequences, outermost axis first *)
NdArray(k, v) == [ndim |-> k, values |-> v]

DataArray(d, v) == [dims |-> d, ndim |-> Len(d), values |-> v]

Shape(a) ==
  CASE a.ndim = 1 -> <<Len(a.values)>>
    [] a.ndim = 2 -> <<Len(a.values), Len(a.values[1])>>
    [] a.ndim = 3 -> <<Len(a.values), Len(a.values[1]), Len(a.values[1][1])>>
    [] OTHER -> <<>>

(* ---- the data files ---- *)
MessageCounts ==
  {0, RecordIndex, RecordIndex + 1, TempIndex - 1, TempIndex, MaxMessages,
   ExampleMessages}

GribFiles ==
  {[exists |-> FALSE, messages |-> 0, Ni |-> 1, Nj |-> 1]} \cup
  {[exists |-> TRUE, messages |-> n, Ni |-> i, Nj |-> j] :
     n \in MessageCounts, i \in 1..MaxLon, j \in 1..MaxLat}

AodFiles ==
  {[exists |-> FALSE, vars |-> {}],
   [exists |-> TRUE, vars |-> {"AOD550", "Longitude"}],
   [exists |-> TRUE, vars |-> {"AOD550", "Latitude", "Longitude"}]}

SstFiles ==
  {[exists |-> FALSE, nlat |-> 1, nlon |-> 1, ntime |-> 0]} \cup
  {[exists |-> TRUE, nlat |-> i, nlon |-> j, ntime |-> t] :
     i \in 1..MaxLat, j \in 1..MaxLon, t \in {Months - 1, Months}}

(* ---- pygrib ---- *)
MessageName(i) ==
  CASE i % 3 = 0 -> "Temperature"
    [] i % 3 = 1 -> "Geopotential Height"
    [] OTHER -> "Relative humidity"

(* the i-th message of the file behind handle h *)
Message(h, i) ==
  [idx |-> i, name |-> MessageName(i), level |-> 100 * (1 + (i % 10)),
   Ni |-> h.Ni, Nj |-> h.Nj]

(* str(grb): "idx:name:units ..." *)
Str(grb) == <<grb.idx, grb.name, grb.level>>

(* fault: a readline that passes over a message before it returns one *)
ReadLineSkipsOne(h, m) ==
  IF m + 1 < h.messages
    THEN [grb |-> <<Message(h, m + 2)>>, pos |-> m + 2]
    ELSE [grb |-> <<>>, pos |-> h.messages]

(* open.readline(): the next message, or nothing at the end of the file *)
ReadLine(h, m) ==
  IF m < h.messages
    THEN [grb |-> <<Message(h, m + 1)>>, pos |-> m + 1]
    ELSE [grb |-> <<>>, pos |-> m]

(* [grb for grb in self if grb.name == name]: the iterator read from *)
(* position m to the end of the file, the matching messages kept    *)
Drain(h, m, name) ==
  SelectSeq([i \in 1..(h.messages - m) |-> ReadLine(h, m + i - 1).grb[1]],
            LAMBDA grb : grb.name = name)

(* fault: a select that searches from the iterator's position, without rewind *)
SelectFromHere(h, m) ==
  LET grbs == Drain(h, m, "Temperature")
  IN  IF grbs = <<>> THEN [exc |-> "ValueError", val |-> <<>>, pos |-> m]
      ELSE [exc |-> "none", val |-> grbs, pos |-> m]

(* open.select(name='Temperature'): tell, rewind, search, seek back *)
Select(h, m) ==
  LET grbs == Drain(h, 0, "Temperature")
  IN  IF grbs = <<>> THEN [exc |-> "ValueError", val |-> <<>>, pos |-> m]
      ELSE [exc |-> "none", val |-> grbs, pos |-> m]

(* open.message(N): rewind when already past N, advance to N *)
MessageAt(h, m, N) ==
  LET start == IF m >= N THEN 0 ELSE m
      nmsgs == N - start
  IN  IF N < 1 THEN [exc |-> "OSError", val |-> <<>>, pos |-> m]
      ELSE IF N > h.messages
             THEN [exc |-> "OSError", val |-> <<>>, pos |-> h.messages]
             ELSE [exc |-> "none", val |-> Message(h, start + nmsgs), pos |-> start + nmsgs]

(* fault: a __getitem__ that leaves the iterator at the message it fetched *)
GetItemNoSeekBack(h, m, key) == MessageAt(h, m, key)

(* open.__getitem__(key): tell, message(key), seek back *)
GetItem(h, m, key) ==
  LET r == MessageAt(h, m, key)
  IN  IF r.exc = "none" THEN [r EXCEPT !.pos = m] ELSE r

(* gribmessage.values, .latitudes, .longitudes on a regular lat/lon grid *)
GribLat(j) == 90 - (j - 1)

GribLon(i) == i - 1

Values(grb) ==
  NdArray(2, [j \in 1..grb.Nj |-> [i \in 1..grb.Ni |-> 200 + (grb.idx % 100) + j + i]])

Latitudes(grb) ==
  NdArray(1, [k \in 1..(grb.Nj * grb.Ni) |-> GribLat(((k - 1) \div grb.Ni) + 1)])

Longitudes(grb) ==
  NdArray(1, [k \in 1..(grb.Nj * grb.Ni) |-> GribLon(((k - 1) % grb.Ni) + 1)])

Units(grb) ==
  CASE grb.name = "Temperature" -> "K"
    [] grb.name = "Geopotential Height" -> "gpm"
    [] OTHER -> "%"

(* ---- xarray ---- *)
AodGrid(n) ==
  CASE n = "AOD550" -> << <<2, Missing, 4>> >>
    [] n = "Latitude" -> << <<10, 11, 12>> >>
    [] OTHER -> << <<20, 21, 22>> >>

SstLat(i) == 2 * (i - 1) - 88

SstLon(j) == 2 * (j - 1)

(* xr.open_dataset(fname, engine='h5netcdf') on the contents c of the file *)
OpenDataset(fname, c) ==
  IF ~c.exists THEN Exc("FileNotFoundError")
  ELSE IF fname = "data/sst.mon.ltm.1981-2010.nc"
    THEN Ok([vars |->
           ("sst" :> DataArray(<<"time", "lat", "lon">>,
                       [t \in 1..c.ntime |-> [i \in 1..c.nlat |->
                          [j \in 1..c.nlon |-> t + i + j]]]))
           @@ ("lat" :> DataArray(<<"lat">>, [i \in 1..c.nlat |-> SstLat(i)]))
           @@ ("lon" :> DataArray(<<"lon">>, [j \in 1..c.nlon |-> SstLon(j)]))])
    ELSE Ok([vars |->
           [n \in c.vars |-> DataArray(<<"Rows", "Columns">>, AodGrid(n))]])

(* Dataset.__getitem__(name) *)
GetVar(ds, name) ==
  IF name \in DOMAIN ds.vars THEN Ok(ds.vars[name]) ELSE Exc("KeyError")

(* index k (from 0) along axis p of nested sequences *)
RECURSIVE Take(_, _, _)
Take(v, p, k) ==
  IF p = 1 THEN v[k + 1] ELSE [i \in 1..Len(v) |-> Take(v[i], p - 1, k)]

AxisOf(da, dim) == CHOOSE p \in 1..Len(da.dims) : da.dims[p] = dim

(* fault: an isel that keeps the dimension, with length 1 *)
IselKeepsDim(da, dim, k) ==
  IF k >= Shape(da)[AxisOf(da, dim)] THEN Exc("IndexError")
  ELSE Ok(DataArray(da.dims,
             LET one == Take(da.values, AxisOf(da, dim), k)
             IN  IF AxisOf(da, dim) = 1 THEN <<one>> ELSE one))

(* DataArray.isel(dim=k): the array at index k of dim, without that dimension *)
Isel(da, dim, k) ==
  IF k >= Shape(da)[AxisOf(da, dim)] THEN Exc("IndexError")
  ELSE Ok(DataArray(SelectSeq(da.dims, LAMBDA d : d # dim),
                    Take(da.values, AxisOf(da, dim), k)))

RECURSIVE Flatten(_)
Flatten(v) == IF v = <<>> THEN <<>> ELSE Head(v) \o Flatten(Tail(v))

RECURSIVE SumSeq(_)
SumSeq(s) == IF s = <<>> THEN 0 ELSE Head(s) + SumSeq(Tail(s))

(* DataArray.mean(): missing values are skipped *)
Mean(da) ==
  LET present == SelectSeq(Flatten(da.values), LAMBDA x : x # Missing)
  IN  SumSeq(present) \div Len(present)

(* ---- numpy ---- *)
RECURSIVE Insert(_, _)
Insert(x, s) ==
  IF s = <<>> THEN <<x>>
  ELSE IF x <= Head(s) THEN <<x>> \o s
  ELSE <<Head(s)>> \o Insert(x, Tail(s))

RECURSIVE Sort(_)
Sort(s) == IF s = <<>> THEN <<>> ELSE Insert(Head(s), Sort(Tail(s)))

RECURSIVE Dedup(_)
Dedup(s) ==
  IF Len(s) <= 1 THEN s
  ELSE IF s[1] = s[2] THEN Dedup(Tail(s))
  ELSE <<s[1]>> \o Dedup(Tail(s))

(* fault: a unique that sorts and keeps the repeated values *)
UniqueKeepsRuns(a) ==
  NdArray(1, Sort(IF a.ndim = 1 THEN a.values ELSE Flatten(a.values)))

(* np.unique(ar): flatten, sort, keep the first of every run of equal values *)
Unique(a) ==
  NdArray(1, Dedup(Sort(IF a.ndim = 1 THEN a.values ELSE Flatten(a.values))))

(* fault: a broadcast that repeats the first element everywhere *)
BroadcastRepeatsFirst(v, n, m) == [i \in 1..n |-> [j \in 1..m |-> v[1][1]]]

(* np.broadcast_to for a (1, m) or (n, 1) array *)
BroadcastTo(v, n, m) ==
  [i \in 1..n |-> [j \in 1..m |->
     v[IF Len(v) = 1 THEN 1 ELSE i][IF Len(v[1]) = 1 THEN 1 ELSE j]]]

(* fault: meshgrid with matrix indexing ('ij'): Len(x) rows, Len(y) columns *)
MeshgridIJ(x, y) ==
  << NdArray(2, BroadcastTo([i \in 1..Len(x) |-> <<x[i]>>], Len(x), Len(y))),
     NdArray(2, BroadcastTo(<<y>>, Len(x), Len(y))) >>

(* np.meshgrid(x, y), indexing='xy': x becomes (1, m), y becomes (n, 1), *)
(* and both are broadcast to (n, m)                                       *)
Meshgrid(x, y) ==
  << NdArray(2, BroadcastTo(<<x>>, Len(y), Len(x))),
     NdArray(2, BroadcastTo([i \in 1..Len(y) |-> <<y[i]>>], Len(y), Len(x))) >>

(* ---- matplotlib ---- *)
(* Axes.contourf(X, Y, Z): Z is 2D, at least 2 x 2, X and Y have its shape *)
Contourf(X, Y, Z) ==
  IF /\ Z.ndim = 2
     /\ Shape(Z)[1] >= 2 /\ Shape(Z)[2] >= 2
     /\ Shape(X) = Shape(Z) /\ Shape(Y) = Shape(Z)
    THEN Ok("QuadContourSet")
    ELSE Exc("TypeError")

(* Axes.pcolormesh(X, Y, C): C is 2D, X and Y have its shape or one more *)
Pcolormesh(X, Y, C) ==
  IF /\ C.ndim = 2
     /\ Shape(X) = Shape(Y)
     /\ \/ Shape(X) = Shape(C)
        \/ Shape(X) = <<Shape(C)[1] + 1, Shape(C)[2] + 1>>
    THEN Ok("QuadMesh")
    ELSE Exc("TypeError")

(* ---- the statements ---- *)
AodPath == "data/JRR-AOD_v2r3_j01_s202009152044026_e202009152045271_c202009152113150_thinned.nc"

GribPath == "data/gfs_3_20200915_0000_000.grb2"

SstPath == "data/sst.mon.ltm.1981-2010.nc"

(* the value of a literal on the right of an assignment *)
Literal(line) ==
  CASE line = 98 -> AodPath
    [] line = 260 -> GribPath
    [] line = 479 -> SstPath
    [] line = 582 -> <<1, 2>>
    [] line = 583 -> <<3, 4, 5>>
    [] OTHER -> <<>>

(* what the file at a path may hold *)
Contents(path) ==
  CASE path = AodPath -> AodFiles
    [] path = GribPath -> GribFiles
    [] OTHER -> SstFiles

(* the value of the expression of a statement in namespace e *)
Eval(line, e) ==
  CASE line \in {115} -> Ok(DOMAIN e["aod_file_id"].vars)
    [] line = 150 -> GetVar(e["aod_file_id"], "AOD550")
    [] line = 151 -> GetVar(e["aod_file_id"], "Latitude")
    [] line = 152 -> GetVar(e["aod_file_id"], "Longitude")
    [] line = 168 -> Ok(e["AOD_550"])
    [] line = 184 -> Ok("numpy.ndarray")
    [] line = 200 -> Ok(Mean(e["AOD_550"]))
    [] line = 201 -> Ok(e["avgAOD"])
    [] line = 277 -> Ok("pygrib._pygrib.open")
    [] line = 299 -> Ok(Len(e["records"]))
    [] line = 315 -> IF RecordIndex < Len(e["records"])
                       THEN Ok(e["records"][RecordIndex + 1])
                       ELSE Exc("IndexError")
    [] line \in {363, 737} -> Ok(Values(e["temp"]))
    [] line = 379 -> Ok(DOMAIN e["temp"])
    [] line = 395 -> Ok(Latitudes(e["temp"]))
    [] line = 396 -> Ok(Longitudes(e["temp"]))
    [] line = 398 -> Ok(e["temp"].level)
    [] line = 399 -> Ok(Units(e["temp"]))
    [] line = 401 -> Ok("2020-09-15 00:00")
    [] line = 402 -> Ok(0)
    [] line = 418 -> Ok(<<Shape(Values(e["temp"])), Shape(e["gfs_lat_all"]),
                          Shape(e["gfs_lon_all"])>>)
    [] line = 434 -> Ok(<<e["gfs_lat_all"], e["gfs_lon_all"]>>)
    [] line = 450 -> Ok(Unique(e["gfs_lat_all"]))
    [] line = 451 -> Ok(Unique(e["gfs_lon_all"]))
    [] line = 452 -> Ok(<<Shape(e["gfs_lat"]), Shape(e["gfs_lon"])>>)
    [] line = 496 -> Ok(DOMAIN e["sst_file_id"].vars)
    [] line = 525 -> GetVar(e["sst_file_id"], "sst")
    [] line = 526 -> GetVar(e["sst_file_id"], "lat")
    [] line = 527 -> GetVar(e["sst_file_id"], "lon")
    [] line = 543 -> Ok(<<Shape(e["sst_lat"]), Shape(e["sst_lon"]), Shape(e["sst"])>>)
    [] line = 566 -> LET v == GetVar(e["sst_file_id"], "sst")
                     IN  IF v.exc # "none" THEN v ELSE Isel(v.val, "time", December)
    [] line = 599 -> Ok(Meshgrid(e["tmp_x"], e["tmp_y"]))
    [] line = 615 -> Ok(Meshgrid(e["sst_lon"].values, e["sst_lat"].values))
    [] line = 631 -> Ok(<<Shape(e["sst"]), Shape(e["X_sst"])>>)
    [] line \in {650, 671, 749, 771} -> Ok("Figure")
    [] line \in {651, 672} -> Ok("AxesSubplot")
    [] line \in {750, 772} -> Ok("GeoAxesSubplot")
    [] line = 652 -> Contourf(e["X_sst"], e["Y_sst"], e["sst"])
    [] line = 673 -> Pcolormesh(e["X_sst"], e["Y_sst"], e["sst"])
    [] line \in {653, 674} -> Ok("Colorbar")
    [] line \in {654, 675, 755, 777} -> Ok("shown")
    [] line \in {754, 776} -> Ok("FeatureArtist")
    [] line = 738 -> Ok(Meshgrid(e["gfs_lon"].values, e["gfs_lat"].values))
    [] line = 740 -> Ok(<<Shape(e["gfs_x"]), Shape(e["gfs_y"]), Shape(e["gfs_temp"])>>)
    [] line \in {752, 774} -> Pcolormesh(e["gfs_x"], e["gfs_y"], e["gfs_temp"])
    [] OTHER -> Exc("SyntaxError")

(* fault: an assignment that binds its first target to None when the value raised *)
AssignBindsNoneOnError(e, line, r) ==
  IF r.exc # "none" THEN Bind(e, Targets(line)[1], "None")
  ELSE IF Len(Targets(line)) = 1 THEN Bind(e, Targets(line)[1], r.val)
  ELSE Bind(Bind(e, Targets(line)[1], r.val[1]), Targets(line)[2], r.val[2])

(* fault: a tuple assignment `a, b = value` that binds its first target only *)
AssignBindsFirstTargetOnly(e, line, r) ==
  IF r.exc # "none" THEN e
  ELSE IF Len(Targets(line)) = 1 THEN Bind(e, Targets(line)[1], r.val)
  ELSE Bind(e, Targets(line)[1], r.val[1])

(* the namespace after `targets = value`: nothing is bound when the value raised *)
AssignResult(e, line, r) ==
  IF r.exc # "none" THEN e
  ELSE IF Len(Targets(line)) = 1 THEN Bind(e, Targets(line)[1], r.val)
  ELSE Bind(Bind(e, Targets(line)[1], r.val[1]), Targets(line)[2], r.val[2])

(* where control goes after a statement *)
NextStmt(p) == p + 1

(* fault: a loop body that returns to the first statement of the cell *)
LoopBackRestarts(p) == p - 2

(* after the body of `for grb in gfs_grb2:` control returns to the for line *)
LoopBack(p) == p - 1

(* when the iterator is exhausted control goes to the statement after the body *)
LoopExit(p) == p + 2

(* the position after a statement that ended with exception x ("none": normally) *)
AfterStmt(p, x) == IF x = "none" THEN NextStmt(p) ELSE Halted

At(lines) == pc \in 1..Len(CodeLines) /\ Line(pc) \in lines

Bound == Reads(Line(pc)) \subseteq DOMAIN env

(* control passes to position p; a cell that was run again on its own hands *)
(* control back to where the reader was                                    *)
Goto(p) ==
  IF resume # 0 /\ (p = Halted \/ p = Done \/ Line(p) \in CellStarts)
    THEN pc' = (IF p = Halted THEN Halted ELSE resume) /\ resume' = 0
    ELSE pc' = p /\ UNCHANGED resume

(* an exception stops the cell and the run; the kernel is idle *)
Fail(x) ==
  /\ Goto(AfterStmt(pc, x))
  /\ error' = x
  /\ UNCHANGED <<env, out, again>>

(* ---- initial state: a fresh kernel, no file read yet ---- *)
Init ==
  /\ pc = 1
  /\ env = <<>>
  /\ out = "none"
  /\ error = "none"
  /\ messagenumber = 0
  /\ disk = [f \in {AodPath, GribPath, SstPath} |-> <<>>]
  /\ again = <<>>
  /\ resume = 0

(* import m as n *)
Import ==
  /\ At(ImportLines)
  /\ env' = Bind(env, Targets(Line(pc))[1], "module")
  /\ Goto(NextStmt(pc))
  /\ UNCHANGED <<out, error, messagenumber, disk, again>>

(* name = literal *)
AssignLiteral ==
  /\ At(LiteralLines)
  /\ env' = Bind(env, Targets(Line(pc))[1], Literal(Line(pc)))
  /\ Goto(NextStmt(pc))
  /\ UNCHANGED <<out, error, messagenumber, disk, again>>

(* name = xr.open_dataset(fname, ...): the file's contents enter the state *)
OpenDatasetStmt ==
  /\ At(OpenDatasetLines)
  /\ IF ~Bound THEN Fail("NameError") /\ UNCHANGED <<messagenumber, disk>>
     ELSE \E c \in Contents(env["fname"]) :
            /\ disk[env["fname"]] \in {<<>>, <<c>>}
            /\ disk' = [disk EXCEPT ![env["fname"]] = <<c>>]
            /\ LET r == OpenDataset(env["fname"], c)
               IN  /\ env' = AssignResult(env, Line(pc), r)
                   /\ Goto(AfterStmt(pc, r.exc))
                   /\ error' = r.exc
            /\ UNCHANGED <<out, messagenumber, again>>

(* gfs_grb2 = pygrib.open(filename): a new iterator at position 0 *)
OpenGrib ==
  /\ At({261})
  /\ IF ~Bound THEN Fail("NameError") /\ UNCHANGED <<messagenumber, disk>>
     ELSE \E c \in Contents(env["filename"]) :
            /\ disk[env["filename"]] \in {<<>>, <<c>>}
            /\ disk' = [disk EXCEPT ![env["filename"]] = <<c>>]
            /\ IF c.exists
                 THEN /\ env' = Bind(env, "gfs_grb2",
                                     [name |-> env["filename"], messages |-> c.messages,
                                      Ni |-> c.Ni, Nj |-> c.Nj])
                      /\ messagenumber' = 0
                      /\ Goto(NextStmt(pc))
                      /\ UNCHANGED error
                 ELSE Fail("OSError") /\ UNCHANGED messagenumber
            /\ UNCHANGED <<out, again>>

(* targets = expression *)
Assign ==
  /\ At(AssignLines)
  /\ IF ~Bound THEN Fail("NameError")
     ELSE LET r == Eval(Line(pc), env)
          IN  /\ env' = AssignResult(env, Line(pc), r)
              /\ Goto(AfterStmt(pc, r.exc))
              /\ error' = r.exc
              /\ UNCHANGED <<out, again>>
  /\ UNCHANGED <<messagenumber, disk>>

(* an expression statement: its value is displayed *)
Expr ==
  /\ At(ExprLines)
  /\ IF ~Bound THEN Fail("NameError")
     ELSE LET r == Eval(Line(pc), env)
          IN  IF r.exc # "none" THEN Fail(r.exc)
              ELSE /\ out' = r.val
                   /\ Goto(NextStmt(pc))
                   /\ UNCHANGED <<env, error, again>>
  /\ UNCHANGED <<messagenumber, disk>>

(* for grb in gfs_grb2: the iterator's next message, or the end of the loop *)
ForNext ==
  /\ At({296})
  /\ IF ~Bound THEN Fail("NameError") /\ UNCHANGED messagenumber
     ELSE LET r == ReadLine(env["gfs_grb2"], messagenumber)
          IN  /\ messagenumber' = r.pos
              /\ IF r.grb = <<>>
                   THEN Goto(LoopExit(pc)) /\ UNCHANGED env
                   ELSE Goto(NextStmt(pc)) /\ env' = Bind(env, "grb", r.grb[1])
              /\ UNCHANGED <<out, error, again>>
  /\ UNCHANGED disk

(* records.append(str(grb)) *)
AppendRecord ==
  /\ At({297})
  /\ IF ~Bound THEN Fail("NameError")
     ELSE /\ env' = Bind(env, "records", Append(env["records"], Str(env["grb"])))
          /\ Goto(LoopBack(pc))
          /\ UNCHANGED <<out, error, again>>
  /\ UNCHANGED <<messagenumber, disk>>

(* temps = gfs_grb2.select(name='Temperature') *)
SelectStmt ==
  /\ At({331})
  /\ IF ~Bound THEN Fail("NameError") /\ UNCHANGED messagenumber
     ELSE LET r == Select(env["gfs_grb2"], messagenumber)
          IN  /\ messagenumber' = r.pos
              /\ env' = AssignResult(env, Line(pc), r)
              /\ Goto(AfterStmt(pc, r.exc))
              /\ error' = r.exc
              /\ UNCHANGED <<out, again>>
  /\ UNCHANGED disk

(* temp = gfs_grb2[315] *)
GetItemStmt ==
  /\ At({347})
  /\ IF ~Bound THEN Fail("NameError") /\ UNCHANGED messagenumber
     ELSE LET r == GetItem(env["gfs_grb2"], messagenumber, TempIndex)
          IN  /\ messagenumber' = r.pos
              /\ env' = AssignResult(env, Line(pc), r)
              /\ Goto(AfterStmt(pc, r.exc))
              /\ error' = r.exc
              /\ UNCHANGED <<out, again>>
  /\ UNCHANGED disk

(* the cells the notebook's text tells the reader to run again, and the idle *)
(* point, after the cells that use the GRIB iterator, where the reader does *)
AgainCells == {260, 295}

RunAgain ==
  /\ pc = Idx(363)
  /\ resume = 0
  /\ Len(again) < MaxAgain
  /\ \E c \in AgainCells :
       /\ pc' = Idx(c)
       /\ resume' = pc
       /\ again' = Append(again, c)
  /\ UNCHANGED <<env, out, error, messagenumber, disk>>

Next ==
  \/ Import
  \/ AssignLiteral
  \/ OpenDatasetStmt
  \/ OpenGrib
  \/ Assign
  \/ Expr
  \/ ForNext
  \/ AppendRecord
  \/ SelectStmt
  \/ GetItemStmt

(* Run All: the code cells from top to bottom *)
Spec == Init /\ [][Next]_vars

NextAgain == Next \/ RunAgain

(* a session in which the reader also runs cells again *)
SpecAgain == Init /\ [][NextAgain]_vars

(* ---- properties ---- *)
Has(n) == n \in DOMAIN env

Last(s) == s[Len(s)]

(* one string per message of the file behind handle h, in file order *)
AllRecords(h) == [i \in 1..h.messages |-> Str(Message(h, i))]

NoRepeat(s) == \A i, j \in 1..Len(s) : i # j => s[i] # s[j]

Elems(s) == {s[i] : i \in 1..Len(s)}

(* C1: once the loop cell has read the GRIB iterator to the end, running the *)
(* cell again without opening the file again leaves records empty; when the *)
(* open cell was run again just before, the loop yields the full list again *)
C1_IterationConsumesHandle ==
  (/\ pc = Idx(363) /\ resume = 0 /\ error = "none"
   /\ again # <<>> /\ Last(again) = 295)
  => IF Len(again) >= 2 /\ again[Len(again) - 1] = 260
       THEN env["records"] = AllRecords(env["gfs_grb2"])
       ELSE env["records"] = <<>>

C1_Witness ==
  /\ pc = Idx(363) /\ resume = 0
  /\ again = <<295>>
  /\ env["records"] = <<>>
  /\ out = 0
  /\ env["gfs_grb2"].messages = ExampleMessages

(* C2: the first run of the loop cell after opening appends exactly one string *)
(* per message, in file order: len(records) is the number of messages        *)
C2_OneRecordPerMessage ==
  (pc > Idx(297) /\ Has("records") /\ Has("gfs_grb2"))
  => /\ Len(env["records"]) = env["gfs_grb2"].messages
     /\ env["records"] = AllRecords(env["gfs_grb2"])

C2_Witness ==
  /\ pc = Idx(315)
  /\ out = ExampleMessages
  /\ Len(env["records"]) = ExampleMessages

(* C3: np.unique leaves every distinct coordinate value exactly once, so a *)
(* regular grid of nlat x nlon points gives nlat latitudes, nlon longitudes *)
C3_UniqueRemovesDuplicates ==
  /\ Has("gfs_lat") =>
       /\ NoRepeat(env["gfs_lat"].values)
       /\ Elems(env["gfs_lat"].values) = Elems(env["gfs_lat_all"].values)
       /\ Len(env["gfs_lat"].values) = env["temp"].Nj
  /\ Has("gfs_lon") =>
       /\ NoRepeat(env["gfs_lon"].values)
       /\ Elems(env["gfs_lon"].values) = Elems(env["gfs_lon_all"].values)
       /\ Len(env["gfs_lon"].values) = env["temp"].Ni

C3_Witness ==
  /\ Has("gfs_lat") /\ Has("gfs_lon")
  /\ Len(env["gfs_lat_all"].values) = MaxLat * MaxLon
  /\ Len(env["gfs_lat"].values) = MaxLat
  /\ Len(env["gfs_lon"].values) = MaxLon

(* C4: gfs_x, gfs_y and gfs_temp, the arguments of pcolormesh, have the same *)
(* 2D shape (nlat, nlon)                                                     *)
C4_GfsShapesAgree ==
  (Has("gfs_x") /\ Has("gfs_y") /\ Has("gfs_temp"))
  => /\ Shape(env["gfs_x"]) = <<env["temp"].Nj, env["temp"].Ni>>
     /\ Shape(env["gfs_y"]) = Shape(env["gfs_x"])
     /\ Shape(env["gfs_temp"]) = Shape(env["gfs_x"])

C4_Witness ==
  /\ pc = Idx(752)
  /\ Shape(env["gfs_x"]) = <<1, MaxLon>>
  /\ Shape(env["gfs_temp"]) = <<1, MaxLon>>

(* C5: np.meshgrid(x, y) returns two arrays of Len(y) rows and Len(x) columns *)
(* with X[i][j] = x[j] and Y[i][j] = y[i]                                     *)
IsMesh(M, x, y) ==
  /\ Shape(M[1]) = <<Len(y), Len(x)>>
  /\ Shape(M[2]) = <<Len(y), Len(x)>>
  /\ \A i \in 1..Len(y) : \A j \in 1..Len(x) :
       /\ Len(M[1].values[i]) = Len(x)
       /\ M[1].values[i][j] = x[j]
       /\ M[2].values[i][j] = y[i]

C5_MeshgridRowsAndColumns ==
  /\ pc = Idx(615) =>
       /\ IsMesh(out, env["tmp_x"], env["tmp_y"])
       /\ Shape(out[1]) = <<3, 2>>
  /\ Has("X_sst") =>
       IsMesh(<<env["X_sst"], env["Y_sst"]>>, env["sst_lon"].values,
              env["sst_lat"].values)
  /\ Has("gfs_x") =>
       IsMesh(<<env["gfs_x"], env["gfs_y"]>>, env["gfs_lon"].values,
              env["gfs_lat"].values)

C5_Witness ==
  /\ pc = Idx(615)
  /\ out[1].values = << <<1, 2>>, <<1, 2>>, <<1, 2>> >>
  /\ out[2].values = << <<3, 3>>, <<4, 4>>, <<5, 5>> >>

C8_StraightLine == [][pc' = pc + 1 \/ pc' = Halted]_vars

(* C8 amended: a run goes from statement to statement, top to bottom, except *)
(* in the records cell, where the for loop returns from its body to the for  *)
(* line and leaves for the statement after the body                          *)
C8_LinearExceptRecordsLoop ==
  [][\/ pc' = pc + 1
     \/ pc' = Halted
     \/ Line(pc) = 297 /\ Line(pc') = 296
     \/ Line(pc) = 296 /\ Line(pc') = 299]_vars

C8_Witness ==
  /\ pc = Idx(297)
  /\ Len(env["records"]) >= 1

(* C9: a statement that raises stops the run: the exception is what is left, *)
(* no name is bound or rebound, the rest of the cell does not run, and no    *)
(* step follows                                                              *)
C9_NoRecovery ==
  [][/\ error = "none"
     /\ error' # "none" => (env' = env /\ pc' = Halted)]_vars

C9_Witness ==
  /\ error = "KeyError"
  /\ pc = Halted
  /\ Has("AOD_550")
  /\ ~Has("AOD_lat") /\ ~Has("AOD_lon")

(* the statements run so far that read name n, in a run from top to bottom *)
UsesSoFar(n) == Cardinality({i \in 1..(pc - 1) : n \in Reads(CodeLines[i])})

(* C10 as stated: every file handle is used by one operation *)
C10_SingleUse ==
  \A n \in {"aod_file_id", "gfs_grb2", "sst_file_id"} : UsesSoFar(n) <= 1

(* C10 amended: gfs_grb2 is shared by the loop, select and [315]; the loop *)
(* leaves the iterator at the end of the file, and select and [315] return *)
(* the Temperature messages and message 315 all the same, and leave the    *)
(* iterator where it was                                                   *)
C10_SharedHandleKeepsPosition ==
  /\ (pc > Idx(297) /\ Has("gfs_grb2")) =>
       messagenumber = env["gfs_grb2"].messages
  /\ pc > Idx(331) =>
       env["temps"] =
         SelectSeq([i \in 1..env["gfs_grb2"].messages |-> Message(env["gfs_grb2"], i)],
                   LAMBDA g : g.name = "Temperature")
  /\ pc > Idx(347) => env["temp"] = Message(env["gfs_grb2"], TempIndex)
  /\ error = "ValueError" =>
       \A i \in 1..env["gfs_grb2"].messages : MessageName(i) # "Temperature"
  /\ error = "OSError" =>
       (~Has("gfs_grb2") \/ env["gfs_grb2"].messages < TempIndex)

C10_Witness ==
  /\ pc = Idx(363)
  /\ UsesSoFar("gfs_grb2") >= 3
  /\ messagenumber = env["gfs_grb2"].messages
  /\ messagenumber > TempIndex
  /\ env["temp"].idx = TempIndex
  /\ Len(env["temps"]) > 0

(* the statements, by position, that bind name n *)
BoundBy(n) == {i \in 1..Len(CodeLines) : n \in Elems(Targets(CodeLines[i]))}

(* the GRIB section of the notebook: from `import pygrib` to the unique axes *)
GribSection == {l \in Elems(CodeLines) : l >= 244 /\ l <= 452}

(* C11: in a run of all code cells from top to bottom, every name the *)
(* statement about to run reads is in the namespace, bound by a statement *)
(* that comes before it (temp, gfs_lat and gfs_lon, read by the mapping cell, *)
(* by statements of the GRIB section), and no statement raises NameError *)
C11_NamesBoundBeforeRead ==
  /\ error # "NameError"
  /\ pc \in 1..Len(CodeLines) =>
       \A n \in Reads(Line(pc)) : Has(n) /\ \E i \in BoundBy(n) : i < pc
  /\ pc \in {Idx(737), Idx(738)} =>
       \A n \in {"temp", "gfs_lat", "gfs_lon"} :
         Has(n) /\ \A i \in BoundBy(n) : CodeLines[i] \in GribSection

(* the mapping cell is at its meshgrid statement: it has read temp and is *)
(* about to read gfs_lon and gfs_lat, which the GRIB section bound        *)
C11_Witness ==
  /\ pc = Idx(738)
  /\ error = "none"
  /\ Has("gfs_temp")
  /\ Reads(738) \subseteq DOMAIN env
  /\ Shape(env["gfs_lat"]) = <<env["gfs_grb2"].Nj>>


====
